---- MODULE Spec2Model ----
(***************************************************************************)
(* A state-machine model of server.py, the MCP server that drives a QEMU   *)
(* guest over one SSH connection and records its activity in a project     *)
(* directory.                                                              *)
(*                                                                         *)
(* One step of the model is what one coroutine does between two            *)
(* suspension points (an await of ssh.run, of an SFTP transfer or of       *)
(* asyncio.sleep): asyncio runs that stretch without switching tasks, and  *)
(* every log write in it (a plain blocking file append) belongs to it.     *)
(* The event loop may run several tool handlers at once; Tasks are the     *)
(* handlers that can be in progress together.                              *)
(*                                                                         *)
(* The environment decides, at each step: whether a remote command or a    *)
(* transfer returns or raises, and whether a write to the project log      *)
(* succeeds or raises OSError.                                             *)
(***************************************************************************)
EXTENDS Integers, Sequences, FiniteSets, TLC

VARIABLES
    phase,      \* lifespan(): "start", "serving", "failed" (connect raised),
                \* "stopped" (served and left), "crashed" (left by an error)
    conn,       \* the SSH connection: "none", "open", "closed"
    opens,      \* how many times asyncssh.connect succeeded
    closes,     \* how many times ssh.close() was called
    project,    \* AppContext.project: NoProject or the active project's path
    fs,         \* the directories under PROJECTS_DIR and what they hold
    call,       \* per task: the tool handler it runs and where it stands
    ncalls      \* tool invocations started so far

vars == <<phase, conn, opens, closes, project, fs, call, ncalls>>

(***************************************************************************)
(* Bounds of the model                                                     *)
(***************************************************************************)
\* the longest batch handed to run_actions
MaxBatch == 2
\* the number of tool invocations in one run of the server
MaxCalls == 2

\* the tool handlers that may be in progress at the same time
Tasks == {1, 2}
\* project directories that project_init may create under PROJECTS_DIR
Dirs == {"d1", "d2"}
\* a directory under PROJECTS_DIR that holds no metadata.json
Junk == "junk"
Paths == Dirs \cup {Junk}

NoProject == "None"

(***************************************************************************)
(* Project store                                                           *)
(***************************************************************************)
\* one line of logs/project.log: "[timestamp] [level] message"
LogLine(level, kind, name) == [level |-> level, kind |-> kind, name |-> name]

\* the line of a caller-written file that is not a log line of this program
RawLine == [level |-> "", kind |-> "RAW", name |-> ""]

\* exists: the directory is there; meta: it holds a metadata.json; corrupt:
\* that file is not the JSON object Project.load reads
NoDir ==
    [exists |-> FALSE, meta |-> FALSE, corrupt |-> FALSE, log |-> <<>>,
     results |-> {}, advice |-> {}]

\* Project._log: open(log_file, "a"); write(log_line)
AppendLog(f, d, line) == [f EXCEPT ![d].log = Append(@, line)]

\* a recorder without its "if project is None: return": with no project it
\* raises where it reaches for the project's log
LogOutcomeNoGuard(p, wok) == IF p # NoProject /\ wok THEN "written" ELSE "oserror"

\* _get_project_optional and the "if project is None: return" of the
\* recorders, then Project._log: what one recorder call does on project p,
\* given whether the file write succeeds
LogOutcome(p, wok) ==
    IF p = NoProject THEN "skipped"
    ELSE IF wok THEN "written" ELSE "oserror"

\* The outcomes of the log writes of one step, in the order the step makes
\* them (TRUE: written, FALSE: OSError).  A handler gives up at its second
\* failed write, and none makes more than three attempts in one step.
WriteFlags ==
    {<<>>, <<TRUE>>, <<FALSE>>,
     <<TRUE, TRUE>>, <<TRUE, FALSE>>, <<FALSE, TRUE>>, <<FALSE, FALSE>>,
     <<TRUE, FALSE, TRUE>>, <<TRUE, FALSE, FALSE>>}

\* the outcome of the i-th write of a step
Flag(ws, i) == IF i <= Len(ws) THEN ws[i] ELSE TRUE

(***************************************************************************)
(* Action translation: the xdotool command of one UI action                *)
(***************************************************************************)
\* str.lower() on the key names the model uses
Lower(k) ==
    CASE k = "Ctrl" -> "ctrl"
      [] k = "L" -> "l"
      [] k = "Return" -> "return"
      [] OTHER -> k

\* "+".join(k.lower() for k in keys), kept as the list of its parts
Combo(keys) == [j \in 1..Len(keys) |-> Lower(keys[j])]

\* text.replace('"', r'\"'), a text being the sequence of its characters
RECURSIVE Escape(_)
Escape(text) ==
    IF text = <<>> THEN <<>>
    ELSE (IF Head(text) = "\"" THEN <<"\\", "\"">> ELSE <<Head(text)>>)
         \o Escape(Tail(text))

KeyCmd(keys) == [prog |-> "xdotool key", arg |-> Combo(keys)]
TypeCmd(text) == [prog |-> "xdotool type --delay 10", arg |-> Escape(text)]

ButtonNames == {"left", "middle", "right"}
\* button_map = {"left": 1, "middle": 2, "right": 3}
ButtonMap(b) == CASE b = "left" -> "1" [] b = "middle" -> "2" [] b = "right" -> "3"

\* a batch that clicks the left button whatever button the element names
BatchButtonLeft(b) == "1"

\* run_actions: btn_num = button_map.get(button, 1)
BatchButton(b) == IF b \in ButtonNames THEN ButtonMap(b) ELSE "1"

ClickCmd(num) == [prog |-> "xdotool click --repeat 1", arg |-> <<num>>]

\* a move_mouse whose mode test lets any other value through to the else
\* branch that builds the relative command
ModeNamesAndMore == {"absolute", "relative", "diagonal"}

ModeNames == {"absolute", "relative"}
\* move_mouse: the two branches the tool accepts
MoveCmd(mode) ==
    [prog |-> IF mode = "absolute" THEN "xdotool mousemove --sync"
              ELSE "xdotool mousemove_relative --sync",
     arg |-> <<"x", "y">>]

ShellCmd == [prog |-> "sh", arg |-> <<"command">>]
ScrotCmd == [prog |-> "scrot", arg |-> <<"remote_path">>]
SftpPut == [prog |-> "sftp put", arg |-> <<"local", "remote">>]
SftpGet == [prog |-> "sftp get", arg |-> <<"remote", "local">>]

(***************************************************************************)
(* Tool handlers in progress                                               *)
(***************************************************************************)
\* pc:   "idle"; "run" (awaiting ssh.run); "sftp" (awaiting a transfer);
\*       "sleep" (awaiting asyncio.sleep); "done"
\* out:  "returned" (the tool's own text), "error" (an "Error ..." text
\*       returned), "raised" (an exception left the handler), "cancelled"
\* rres: how the remote command or transfer of a tool ended: "ok",
\*       "nonzero" (ssh_execute: exit status not 0), "raise"
\* batch, i, results: run_actions' actions, loop index and results list
\* fail, stage: the number of the first batch element that raised, and where
\* cmds: the remote commands and transfers the handler has issued
\* wfail: a write to the project log raised in this handler
\* proj: the project take_screenshot read at its start
\* res: what a tool that reads (logs, advice, the project list) returned;
\*      the number of characters type_text reports
\* lines: the "lines" argument of project_read_logs
\* chan: the SFTP channel of the handler: "none" (it opened none), "open",
\*       "closed" (it opened one, which was released)
Idle ==
    [tool |-> "none", pc |-> "idle", arg |-> <<>>, batch |-> <<>>, i |-> 0,
     results |-> <<>>, cmds |-> <<>>, rres |-> "none", fail |-> 0,
     stage |-> "none", out |-> "none", wfail |-> FALSE, proj |-> NoProject,
     res |-> <<>>, lines |-> 0, chan |-> "none"]

NewCall(tool, arg) == [Idle EXCEPT !.tool = tool, !.arg = arg]

\* a remote command or transfer is handed to the connection and awaited
Issue(c, idx, cmd, pc) ==
    [c EXCEPT !.pc = pc, !.cmds = Append(@, [idx |-> idx, cmd |-> cmd])]

Finish(c, out) == [c EXCEPT !.pc = "done", !.out = out]

\* async with ssh.start_sftp_client() as sftp: await sftp.put(...) or
\* await sftp.get(...): the channel is opened and the transfer awaited
OpenSftp(c, cmd) == [Issue(c, 0, cmd, "sftp") EXCEPT !.chan = "open"]

\* a transfer whose channel is closed by a call after the transfer, which
\* an exception of the transfer skips
ExitSftpOnSuccess(c) == IF c.rres = "ok" THEN [c EXCEPT !.chan = "closed"] ELSE c

\* the async with block is left, by its end or by an exception: __aexit__
\* releases the channel
ExitSftp(c) == [c EXCEPT !.chan = "closed"]

\* CancelledError is raised at the handler's await and leaves the handler
\* through the async with block it may be in
Cancelled(c) == Finish(IF c.chan = "open" THEN ExitSftp(c) ELSE c, "cancelled")

Free(t) == call[t].pc \in {"idle", "done"}

\* a tool can be invoked while the server serves and no finished handler's
\* result waits to be sent; the invocation is run by the first task that runs
\* no handler
CanStart(t) ==
    /\ phase = "serving"
    /\ \A u \in Tasks : call[u].pc # "done"
    /\ Free(t)
    /\ \A u \in Tasks : u < t => ~Free(u)
    /\ ncalls < MaxCalls

\* the tasks with a remote command or a transfer in flight
InFlight == {t \in Tasks : call[t].pc \in {"run", "sftp"}}

(***************************************************************************)
(* The recorders: _log_tool_call and _log_error                            *)
(***************************************************************************)
\* A step in progress: the handler's record c, the disk f, the number k of
\* log writes the step has attempted, and whether the last one raised.
StepOf(c) == [c |-> c, f |-> fs, k |-> 0, raised |-> FALSE]

\* one call that ends in project._log(line) on project p
Record(S, p, ws, line) ==
    LET o == LogOutcome(p, Flag(ws, S.k + 1))
    IN [c |-> [S.c EXCEPT !.wfail = @ \/ (o = "oserror")],
        f |-> IF o = "written" THEN AppendLog(S.f, p, line) ELSE S.f,
        k |-> IF p = NoProject THEN S.k ELSE S.k + 1,
        raised |-> o = "oserror"]

\* _log_tool_call(ctx, tool_name, params, result)
LogToolCall(S, ws, tool) == Record(S, project, ws, LogLine("INFO", "TOOL", tool))

\* _log_error(ctx, tool_name, error)
LogError(S, ws, tool) == Record(S, project, ws, LogLine("ERROR", "ERROR in", tool))

\* project._log(...) called by the project's own methods and tools
ProjectLog(S, p, ws, kind) == Record(S, p, ws, LogLine("INFO", kind, ""))

\* a handler that catches nothing ends: it raises if its last write raised
Ended(S) == [S EXCEPT !.c = Finish(S.c, IF S.raised THEN "raised" ELSE "returned")]

Returned(S) == [S EXCEPT !.c = Finish(S.c, "returned")]

\* except Exception as e: _log_error(ctx, tool, str(e)); return f"Error ..."
Except(S, ws) ==
    LET T == LogError(S, ws, S.c.tool)
    IN [T EXCEPT !.c = Finish(T.c, IF T.raised THEN "raised" ELSE "error")]

\* A finished handler's record shows what its caller got.  It is kept for
\* the one state in which the handler has just ended: the handler's frame is
\* gone by the server's next step.
Retire(c) == IF c.pc = "done" THEN Idle ELSE c

\* the server sends the finished handlers' results to their callers
Respond ==
    /\ phase = "serving"
    /\ \E t \in Tasks : call[t].pc = "done"
    /\ call' = [t \in Tasks |-> Retire(call[t])]
    /\ UNCHANGED <<phase, conn, opens, closes, project, fs, ncalls>>

\* the step's result becomes the state; ws holds one outcome per write made
Commit(t, S, ws) ==
    /\ Len(ws) = S.k
    /\ call' = [u \in Tasks |-> IF u = t THEN S.c ELSE Retire(call[u])]
    /\ fs' = S.f

\* a tool is invoked: its handler runs to its first await, or to its end
Begin(t, S, ws) ==
    /\ Commit(t, S, ws)
    /\ ncalls' = ncalls + 1
    /\ UNCHANGED <<phase, conn, opens, closes>>

\* a suspended handler goes on to its next await, or to its end
Resume(t, S, ws) ==
    /\ Commit(t, S, ws)
    /\ UNCHANGED <<phase, conn, opens, closes, project, ncalls>>

(***************************************************************************)
(* lifespan(): the connection is opened, the server serves, the connection *)
(* is closed                                                               *)
(***************************************************************************)
\* ssh = await connect_ssh()
Connect(ok) ==
    /\ phase = "start"
    /\ IF ok
       THEN /\ phase' = "serving"
            /\ conn' = "open"
            /\ opens' = opens + 1
       ELSE /\ phase' = "failed"
            /\ UNCHANGED <<conn, opens>>
    /\ UNCHANGED <<closes, project, fs, call, ncalls>>

\* lifespan without its try/finally: an error inside the serving phase skips
\* the close
ClosesOnExitNoFinally(how) == how = "normal"

\* try: yield AppContext(ssh=ssh)  finally: ssh.close(); await ssh.wait_closed()
ClosesOnExit(how) == how \in {"normal", "error"}

\* The serving phase ends, normally or by an error raised inside it.  The
\* handlers run inside the serving phase: those still suspended are cancelled
\* with it (CancelledError is no Exception: no handler catches or records it).
Shutdown(how) ==
    /\ phase = "serving"
    /\ phase' = IF how = "normal" THEN "stopped" ELSE "crashed"
    /\ call' = [t \in Tasks |->
                 IF Free(t) THEN Retire(call[t]) ELSE Cancelled(call[t])]
    /\ IF ClosesOnExit(how)
       THEN conn' = "closed" /\ closes' = closes + 1
       ELSE UNCHANGED <<conn, closes>>
    /\ UNCHANGED <<opens, project, fs, ncalls>>

(***************************************************************************)
(* Single-action tools: move_mouse, click, type_text, press_keys, wait     *)
(***************************************************************************)
\* the arguments the model hands to the tools
Modes == {"absolute", "relative", "diagonal"}
Buttons == {"left", "middle", "right", "thumb"}
SomeKeys == <<"Ctrl", "L">>
SomeText == <<"h", "\"", "i">>

\* move_mouse up to "await run_vm_cmd(ssh, cmd)"
MoveMouseStart(t, mode) ==
    /\ CanStart(t)
    /\ LET c == NewCall("move_mouse", <<mode>>)
       IN Begin(t, StepOf(IF mode \in ModeNames
                          THEN Issue(c, 0, MoveCmd(mode), "run")
                          ELSE Finish(c, "raised")), <<>>)
    /\ project' = project

\* click up to "await run_vm_cmd(ssh, cmd)"
ClickStart(t, button) ==
    /\ CanStart(t)
    /\ LET c == NewCall("click", <<button>>)
       IN Begin(t, StepOf(IF button \in ButtonNames
                          THEN Issue(c, 0, ClickCmd(ButtonMap(button)), "run")
                          ELSE Finish(c, "raised")), <<>>)
    /\ project' = project

\* type_text up to "await run_vm_cmd(ssh, cmd)"
TypeTextStart(t, text) ==
    /\ CanStart(t)
    /\ Begin(t, StepOf(Issue(NewCall("type_text", text), 0, TypeCmd(text), "run")), <<>>)
    /\ project' = project

\* press_keys up to "await run_vm_cmd(ssh, cmd)"
PressKeysStart(t, keys) ==
    /\ CanStart(t)
    /\ Begin(t, StepOf(Issue(NewCall("press_keys", keys), 0, KeyCmd(keys), "run")), <<>>)
    /\ project' = project

SingleTools == {"move_mouse", "click", "type_text", "press_keys"}

\* type_text: return f"Typed {len(text)} characters", kept as the number
Reported(c) == IF c.tool = "type_text" THEN Len(c.arg) ELSE c.res

\* run_vm_cmd returns or raises (check=True: a nonzero exit raises too); on
\* return the tool records the call and returns its text
SingleReturn(t, ok, ws) ==
    /\ call[t].pc = "run"
    /\ call[t].tool \in SingleTools
    /\ Resume(t, IF ok
                 THEN Ended(LogToolCall(StepOf([call[t] EXCEPT !.rres = "ok",
                                                               !.res = Reported(call[t])]),
                                        ws, call[t].tool))
                 ELSE StepOf(Finish([call[t] EXCEPT !.rres = "raise"], "raised")), ws)

\* wait up to "await asyncio.sleep(seconds)"
WaitStart(t) ==
    /\ CanStart(t)
    /\ Begin(t, StepOf([NewCall("wait", <<"0.5">>) EXCEPT !.pc = "sleep"]), <<>>)
    /\ project' = project

\* the sleep is over: the tool records the call and returns
WaitWake(t, ws) ==
    /\ call[t].pc = "sleep"
    /\ call[t].tool = "wait"
    /\ Resume(t, Ended(LogToolCall(StepOf(call[t]), ws, "wait")), ws)

(***************************************************************************)
(* run_actions: a batch of UI actions, stopped at the first exception      *)
(***************************************************************************)
Recognized == {"press_keys", "type_text", "click", "move_mouse", "wait"}

\* an element of the batch: its "action", the parameter the action reads
\* (keys, text, button, mode or seconds) and whether that parameter has the
\* type the code expects (wf)
Element(action, param, wf) == [action |-> action, param |-> param, wf |-> wf]

\* the command run_actions builds for a recognized element that is no pause
ElementCmd(e) ==
    CASE e.action = "press_keys" -> KeyCmd(e.param)
      [] e.action = "type_text" -> TypeCmd(e.param)
      [] e.action = "click" -> ClickCmd(BatchButton(e.param[1]))
      [] e.action = "move_mouse" -> MoveCmd(e.param[1])

\* k.lower() on a key that is no string, text.replace on a text that is none:
\* the exception is raised inside the try, before any command exists
BuildRaises(e) == e.action \in {"press_keys", "type_text"} /\ ~e.wf

\* f"{i}. ...": the entry of element i numbered from 0
EntryNumberFromZero(i) == i

\* f"{i + 1}. ...": the number of the entry of element i (i counts from 0)
EntryNumber(i) == i + 1

\* tag: "OK" (the action's own entry), "UNKNOWN" ("UNKNOWN ACTION: ..."),
\* "ERROR" ("ERROR in ...: ...")
Entry(i, tag, action) == [n |-> EntryNumber(i), tag |-> tag, action |-> action]

\* run_actions without its break: the loop goes on after an error
AfterErrorContinue(i, n) == i + 1

\* "break  # Stop on error": the element the loop goes to after the error
\* entry of element i in a batch of n, n standing for the end of the loop
AfterError(i, n) == n

\* an unknown action treated as an error that stops the batch
UnknownEntryHalting(c) ==
    [c EXCEPT !.results = Append(@, Entry(c.i, "ERROR", c.batch[c.i + 1].action)),
              !.i = Len(c.batch)]

\* else: results.append(f"{i + 1}. UNKNOWN ACTION: {action_type}")
UnknownEntry(c) ==
    [c EXCEPT !.results = Append(@, Entry(c.i, "UNKNOWN", c.batch[c.i + 1].action)),
              !.i = @ + 1]

\* a loop that appends the element's entry and stays at the element
DoneEntryAgain(c) ==
    [c EXCEPT !.results = Append(@, Entry(c.i, "OK", c.batch[c.i + 1].action))]

\* the element's own entry, appended after its await returned
DoneEntry(c) ==
    [c EXCEPT !.results = Append(@, Entry(c.i, "OK", c.batch[c.i + 1].action)),
              !.i = @ + 1]

\* an except clause that forgets the entry of the failing element
ErrorEntryDropped(c) == c

\* results.append(f"{i + 1}. ERROR in {action_type}: {str(e)}")
ErrorEntry(c) ==
    [c EXCEPT !.results = Append(@, Entry(c.i, "ERROR", c.batch[c.i + 1].action))]

RECURSIVE Loop(_, _)
RECURSIVE Caught(_, _, _)

\* The for loop from element S.c.i (counted from 0) up to its next await, or
\* through "_log_tool_call(...); return" when no element is left.
Loop(S, ws) ==
    LET c == S.c
    IN IF c.i >= Len(c.batch)
       THEN LET T == LogToolCall(S, ws, "run_actions")
            IN [T EXCEPT !.c = Finish(T.c, IF T.raised THEN "raised" ELSE "returned")]
       ELSE LET e == c.batch[c.i + 1]
            IN IF e.action \notin Recognized
               THEN Loop([S EXCEPT !.c = UnknownEntry(c)], ws)
               ELSE IF e.action = "wait"
               THEN IF e.wf THEN [S EXCEPT !.c.pc = "sleep"]
                    ELSE Caught(S, ws, "sleep")
               ELSE IF BuildRaises(e) THEN Caught(S, ws, "build")
               ELSE [S EXCEPT !.c = Issue(c, c.i + 1, ElementCmd(e), "run")]

\* except Exception as e: the error entry, _log_error, break.  stage says
\* where element i raised: "build" (making the command), "remote" (in
\* run_vm_cmd) or "sleep" (in asyncio.sleep)
Caught(S, ws, stage) ==
    LET c == S.c
        S1 == [S EXCEPT !.c = ErrorEntry([c EXCEPT
                   !.fail = IF @ = 0 THEN c.i + 1 ELSE @,
                   !.stage = IF c.fail = 0 THEN stage ELSE @])]
        S2 == LogError(S1, ws, "run_actions")
    IN IF S2.raised
       THEN [S2 EXCEPT !.c = Finish(S2.c, "raised")]
       ELSE Loop([S2 EXCEPT !.c.i = AfterError(c.i, Len(c.batch))], ws)

\* the elements the model hands to run_actions: a press_keys whose keys are
\* no strings, a type_text, a click with a button name the map lacks, a
\* pause and an action of no known kind
BatchElems ==
    { Element("press_keys", SomeKeys, FALSE),
      Element("type_text", SomeText, TRUE),
      Element("click", <<"thumb">>, TRUE),
      Element("wait", <<"0.5">>, TRUE),
      Element("scroll", <<>>, TRUE) }

Batches == UNION {[1..n -> BatchElems] : n \in 0..MaxBatch}

\* the batches the model of the whole server hands to run_actions
ShortBatches == {b \in Batches : Len(b) <= 1}

\* run_actions(actions) up to its first await
RunActionsStart(t, batch, ws) ==
    /\ CanStart(t)
    /\ Begin(t, Loop(StepOf([NewCall("run_actions", <<>>) EXCEPT !.batch = batch]), ws), ws)
    /\ project' = project

\* run_vm_cmd of the current element returns or raises
RunActionsReturn(t, ok, ws) ==
    /\ call[t].pc = "run"
    /\ call[t].tool = "run_actions"
    /\ Resume(t, IF ok THEN Loop(StepOf(DoneEntry(call[t])), ws)
                 ELSE Caught(StepOf(call[t]), ws, "remote"), ws)

\* asyncio.sleep of the current element is over
RunActionsWake(t, ws) ==
    /\ call[t].pc = "sleep"
    /\ call[t].tool = "run_actions"
    /\ Resume(t, Loop(StepOf(DoneEntry(call[t])), ws), ws)

(***************************************************************************)
(* SSH tools: ssh_execute, ssh_upload, ssh_download                        *)
(***************************************************************************)
\* ssh_execute up to "await ssh.run(command, check=False)"
SshExecuteStart(t) ==
    /\ CanStart(t)
    /\ Begin(t, StepOf(Issue(NewCall("ssh_execute", <<"command">>), 0, ShellCmd, "run")),
             <<>>)
    /\ project' = project

\* ssh.run returns with exit status 0 ("ok"), returns with another status
\* ("nonzero"), or raises ("raise"); the rest of the handler follows
SshExecuteReturn(t, r, ws) ==
    /\ call[t].pc = "run"
    /\ call[t].tool = "ssh_execute"
    /\ LET S0 == StepOf([call[t] EXCEPT !.rres = r])
           S1 == LogToolCall(S0, ws, "ssh_execute")
           S2 == LogError(S1, ws, "ssh_execute")
       IN Resume(t,
            IF r = "raise" THEN Except(S0, ws)
            ELSE IF S1.raised THEN Except(S1, ws)
            ELSE IF r = "ok" THEN Returned(S1)
            ELSE IF S2.raised THEN Except(S2, ws)
            ELSE Returned(S2), ws)

\* ssh_upload up to "await sftp.put(...)", or through its return when the
\* local file does not exist
SshUploadStart(t, localExists, ws) ==
    /\ CanStart(t)
    /\ LET c == NewCall("ssh_upload", <<"local_path">>)
           S1 == LogError(StepOf(c), ws, "ssh_upload")
       IN Begin(t,
            IF localExists THEN StepOf(OpenSftp(c, SftpPut))
            ELSE IF S1.raised THEN Except(S1, ws)
            ELSE [S1 EXCEPT !.c = Finish(S1.c, "error")], ws)
    /\ project' = project

\* the local paths the model hands to ssh_download: a path outside every
\* project, and the log file of project directory d1
DownloadTargets == {"elsewhere", "d1"}

\* ssh_download up to "await sftp.get(...)"; mkok: whether
\* local_file.parent.mkdir succeeds
SshDownloadStart(t, dst, mkok, ws) ==
    /\ CanStart(t)
    /\ LET c == NewCall("ssh_download", <<dst>>)
       IN Begin(t,
            IF mkok THEN StepOf(OpenSftp(c, SftpGet))
            ELSE Except(StepOf(c), ws), ws)
    /\ project' = project

\* sftp.get has written the remote file's bytes to local_path
Downloaded(f, dst) ==
    IF dst \in Dirs
    THEN [f EXCEPT ![dst].exists = TRUE, ![dst].log = <<RawLine>>]
    ELSE f

\* the transfer of ssh_upload or ssh_download returns or raises
SshTransferReturn(t, ok, ws) ==
    /\ call[t].pc = "sftp"
    /\ call[t].tool \in {"ssh_upload", "ssh_download"}
    /\ LET c == ExitSftp([call[t] EXCEPT !.rres = IF ok THEN "ok" ELSE "raise"])
           S0 == [StepOf(c) EXCEPT
                    !.f = IF ok /\ c.tool = "ssh_download"
                          THEN Downloaded(fs, c.arg[1]) ELSE fs]
           S1 == LogToolCall(S0, ws, c.tool)
       IN Resume(t,
            IF ~ok THEN Except(S0, ws)
            ELSE IF S1.raised THEN Except(S1, ws)
            ELSE Returned(S1), ws)

(***************************************************************************)
(* Project tools                                                           *)
(***************************************************************************)
\* project_init: Project.create makes the directories, writes metadata.json
\* and the first log line; only then is the project made the active one
ProjectInit(t, d, ws) ==
    /\ CanStart(t)
    /\ LET c == NewCall("project_init", <<d>>)
           S0 == [StepOf(c) EXCEPT !.f = [fs EXCEPT ![d].exists = TRUE, ![d].meta = TRUE,
                                              ![d].corrupt = FALSE]]
           S1 == ProjectLog(S0, d, ws, "Project initialized")
       IN /\ Begin(t, Ended(S1), ws)
          /\ project' = IF S1.raised THEN project ELSE d

\* project_load: the path or its metadata.json is missing, or the project is
\* loaded, made the active one and logs "Project loaded"
ProjectLoad(t, path, ws) ==
    /\ CanStart(t)
    /\ LET c == NewCall("project_load", <<path>>)
           S1 == ProjectLog(StepOf(c), path, ws, "Project loaded")
       IN IF ~fs[path].exists \/ ~fs[path].meta \/ fs[path].corrupt
          THEN /\ Begin(t, StepOf(Finish(c, "error")), ws)
               /\ project' = project
          ELSE /\ Begin(t, [S1 EXCEPT !.c = Finish(S1.c, IF S1.raised THEN "error"
                                                         ELSE "returned")], ws)
               /\ project' = path

\* a _get_project that hands back None where it should raise: the tool goes
\* on and returns its text
NoActiveProjectIgnored(tool) == StepOf(Finish(NewCall(tool, <<>>), "returned"))

\* _get_project: raise ValueError("No project initialized...")
NoActiveProject(tool) == StepOf(Finish(NewCall(tool, <<>>), "raised"))

\* project_log(message, level): the caller's level goes between the
\* brackets as given, the caller's message after them
ProjectLogTool(t, level, message, ws) ==
    /\ CanStart(t)
    /\ Begin(t, IF project = NoProject THEN NoActiveProject("project_log")
                ELSE Ended(Record(StepOf(NewCall("project_log", <<level>>)),
                                  project, ws, LogLine(level, "MSG", message))), ws)
    /\ project' = project

\* the file names the model hands to project_save_result
LogFileFromResults == "../logs/project.log"
ResultNames == {"r.txt", LogFileFromResults}
\* the contents it hands over, as whole lines
Contents == {<<>>, <<RawLine>>}

\* Project.save_result: open(self.path / "results" / filename, "w"); write
SaveResultFile(f, p, filename, content) ==
    IF filename = LogFileFromResults
    THEN [f EXCEPT ![p].log = content]
    ELSE [f EXCEPT ![p].results = @ \cup {filename}]

\* project_save_result(filename, content)
ProjectSaveResult(t, filename, content, ws) ==
    /\ CanStart(t)
    /\ LET c == NewCall("project_save_result", <<filename>>)
           S0 == [StepOf(c) EXCEPT !.f = SaveResultFile(fs, project, filename, content)]
       IN Begin(t, IF project = NoProject THEN NoActiveProject("project_save_result")
                   ELSE Ended(ProjectLog(S0, project, ws, "Result saved")), ws)
    /\ project' = project

(***************************************************************************)
(* Advice notes: Project.save_advice and Project.get_all_advice.  A text   *)
(* is the sequence of its characters.                                      *)
(***************************************************************************)
Newline == "\n"
\* the characters str.strip() removes at both ends
Whitespace == {" ", Newline}
\* the characters of the model's texts for which str.isalnum() holds
Alnum == {"a", "b", "1"}

\* c if c.isalnum() or c in "- _" else "_"
SafeChar(c) == IF c \in Alnum \cup {"-", " ", "_"} THEN c ELSE "_"

\* safe_title[:50]
TitleLimit == 50

\* text[:n]
Take(text, n) == SubSeq(text, 1, IF Len(text) < n THEN Len(text) ELSE n)

\* "".join(c if ... else "_" for c in title)[:50]
SafeTitle(title) == Take([j \in 1..Len(title) |-> SafeChar(title[j])], TitleLimit)

\* f"# {title}\n\n{content}\n"
AdviceText(title, content) ==
    <<"#", " ">> \o title \o <<Newline, Newline>> \o content \o <<Newline>>

\* text.lstrip(chars)
RECURSIVE LStrip(_, _)
LStrip(text, chars) ==
    IF text # <<>> /\ Head(text) \in chars THEN LStrip(Tail(text), chars) ELSE text

\* text.rstrip(chars)
RECURSIVE RStrip(_, _)
RStrip(text, chars) ==
    IF text # <<>> /\ text[Len(text)] \in chars
    THEN RStrip(SubSeq(text, 1, Len(text) - 1), chars)
    ELSE text

\* text.strip()
Strip(text) == RStrip(LStrip(text, Whitespace), Whitespace)

\* text.split("\n"): the lines of the text, one more than its newlines
RECURSIVE SplitLines(_)
SplitLines(text) ==
    IF \A j \in 1..Len(text) : text[j] # Newline THEN <<text>>
    ELSE LET k == CHOOSE j \in 1..Len(text) :
                      /\ text[j] = Newline
                      /\ \A m \in 1..(j - 1) : text[m] # Newline
         IN <<SubSeq(text, 1, k - 1)>> \o SplitLines(SubSeq(text, k + 1, Len(text)))

\* "\n".join(lines)
RECURSIVE JoinLines(_)
JoinLines(lines) ==
    IF lines = <<>> THEN <<>>
    ELSE IF Len(lines) = 1 THEN lines[1]
    ELSE lines[1] \o <<Newline>> \o JoinLines(Tail(lines))

\* get_all_advice: lines[0].lstrip("# ").strip() of content.strip().split("\n")
ParseTitle(text) == Strip(LStrip(SplitLines(Strip(text))[1], {"#", " "}))

\* get_all_advice: "\n".join(lines[2:]).strip() if len(lines) > 2 else ""
ParseBody(text) ==
    LET lines == SplitLines(Strip(text))
    IN IF Len(lines) > 2 THEN Strip(JoinLines(SubSeq(lines, 3, Len(lines)))) ELSE <<>>

\* The file save_advice writes at second ts: advice/{timestamp}_{safe}.md,
\* opened with "w", holds the text; a file of that name is replaced.
SaveAdviceFile(f, p, ts, title, content) ==
    LET safe == SafeTitle(title)
    IN [f EXCEPT ![p].advice =
          {a \in @ : ~(a.ts = ts /\ a.safe = safe)}
          \cup {[ts |-> ts, safe |-> safe, text |-> AdviceText(title, content)]}]

\* get_all_advice: one entry per *.md file of the advice directory (the
\* order of the list, by file name, is left out)
GetAllAdvice(f, p) ==
    {[file |-> <<a.ts, a.safe>>, title |-> ParseTitle(a.text),
      content |-> ParseBody(a.text)] : a \in f[p].advice}

\* the seconds of the clock that stamps the advice files
MaxSecond == 2
Seconds == 1..MaxSecond

\* the titles and contents the model hands to project_save_advice
Titles == {<<"a">>, <<"a", "/">>, <<"a", "?">>, <<"#", "1">>}
Bodies == {<<"b">>, <<" ", "b">>}

\* utcnow() does not run backwards: no advice file is stamped later than ts
ClockAt(ts) == \A d \in Paths : \A a \in fs[d].advice : a.ts <= ts

\* project_save_advice(title, content) at second ts
ProjectSaveAdvice(t, ts, title, content, ws) ==
    /\ CanStart(t)
    /\ ClockAt(ts)
    /\ LET c == NewCall("project_save_advice", title)
           S0 == [StepOf(c) EXCEPT !.f = SaveAdviceFile(fs, project, ts, title, content)]
       IN Begin(t, IF project = NoProject THEN NoActiveProject("project_save_advice")
                   ELSE Ended(ProjectLog(S0, project, ws, "Advice saved")), ws)
    /\ project' = project

\* project_read_advice()
ProjectReadAdvice(t) ==
    /\ CanStart(t)
    /\ Begin(t, IF project = NoProject THEN NoActiveProject("project_read_advice")
                ELSE StepOf(Finish([NewCall("project_read_advice", <<>>)
                                       EXCEPT !.res = GetAllAdvice(fs, project)],
                                   "returned")), <<>>)
    /\ project' = project

\* the message the model hands to project_log that holds a newline
MultilineMessage == "first\nsecond"

\* the number of "\n" in the text Project._log writes for one entry,
\* f"[{timestamp}] [{level}] {message}\n": the one that ends it and those
\* of the message
NewlinesOf(line) == IF line.name = MultilineMessage THEN 2 ELSE 1

RECURSIVE CountNewlines(_)
\* Project.get_info: log_file.read_text().count("\n")
CountNewlines(log) ==
    IF log = <<>> THEN 0 ELSE NewlinesOf(Head(log)) + CountNewlines(Tail(log))

\* project_info()
ProjectInfo(t) ==
    /\ CanStart(t)
    /\ Begin(t, IF project = NoProject THEN NoActiveProject("project_info")
                ELSE StepOf(Finish([NewCall("project_info", <<>>)
                                       EXCEPT !.res = <<CountNewlines(fs[project].log)>>],
                                   "returned")), <<>>)
    /\ project' = project

(***************************************************************************)
(* project_read_logs                                                       *)
(***************************************************************************)
\* str.upper() on the level names the model uses
Upper(x) ==
    CASE x = "error" -> "ERROR"
      [] x = "info" -> "INFO"
      [] OTHER -> x

\* the message the model hands to project_log that quotes a level in brackets
QuotingMessage == "saw [ERROR]"

\* the words X for which "[X]" is a substring of the line
\* "[timestamp] [level] message" (the timestamp is no word of the model)
LineTags(line) ==
    {line.level} \cup (IF line.name = QuotingMessage THEN {"ERROR"} ELSE {})

\* seq[start:] for a start counted from 0, from the end when negative;
\* -0 is 0
SliceFrom(seq, start) ==
    LET n == Len(seq)
        from == IF start < 0 THEN (IF n + start < 0 THEN 0 ELSE n + start)
                ELSE (IF start > n THEN n ELSE start)
    IN SubSeq(seq, from + 1, n)

\* the largest "lines" argument the model hands to project_read_logs
MaxLimit == 2
Limits == 0..MaxLimit
\* the level filters, the levels and the messages the model hands over
Filters == {"", "ERROR", "error", "INFO"}
Levels == {"INFO", "ERROR", "error"}
Messages == {"", QuotingMessage}

\* project_read_logs: the filter, then the cap
ReadLogs(log, lines, filter) ==
    LET Kept(line) == Upper(filter) \in LineTags(line)
        all == IF filter # "" THEN SelectSeq(log, Kept) ELSE log
    IN IF Len(all) > lines THEN SliceFrom(all, 0 - lines) ELSE all

\* project_read_logs(lines, level_filter)
ProjectReadLogs(t, lines, filter) ==
    /\ CanStart(t)
    /\ Begin(t, IF project = NoProject THEN NoActiveProject("project_read_logs")
                ELSE StepOf(Finish([NewCall("project_read_logs", <<filter>>)
                                       EXCEPT !.lines = lines,
                                              !.res = ReadLogs(fs[project].log, lines, filter)],
                                   "returned")), <<>>)
    /\ project' = project

(***************************************************************************)
(* project_list                                                            *)
(***************************************************************************)
\* project_list: the directories of PROJECTS_DIR that hold a metadata.json,
\* each listed by what Project.load gives, or as "(invalid)" when it raises
\* (the order of the list is left out)
ListProjects(f) ==
    {[dir |-> d, entry |-> IF f[d].corrupt THEN "(invalid)" ELSE "valid"] :
        d \in {x \in Paths : f[x].exists /\ f[x].meta}}

\* project_list()
ProjectList(t) ==
    /\ CanStart(t)
    /\ Begin(t, StepOf(Finish([NewCall("project_list", <<>>)
                                  EXCEPT !.res = ListProjects(fs)], "returned")), <<>>)
    /\ project' = project

(***************************************************************************)
(* take_screenshot                                                         *)
(***************************************************************************)
\* take_screenshot up to "await run_vm_cmd(ssh, cmd)" (scrot)
TakeScreenshotStart(t) ==
    /\ CanStart(t)
    /\ Begin(t, IF project = NoProject THEN NoActiveProject("take_screenshot")
                ELSE StepOf(Issue([NewCall("take_screenshot", <<>>)
                                      EXCEPT !.proj = project], 0, ScrotCmd, "run")),
             <<>>)
    /\ project' = project

\* scrot returns or raises; on return the download is started
TakeScreenshotReturn(t, ok) ==
    /\ call[t].pc = "run"
    /\ call[t].tool = "take_screenshot"
    /\ Resume(t, StepOf(IF ok THEN OpenSftp(call[t], SftpGet)
                        ELSE Finish([call[t] EXCEPT !.rres = "raise"], "raised")), <<>>)

\* the download returns or raises; on return the project the handler read
\* at its start logs the capture
TakeScreenshotTransfer(t, ok, ws) ==
    /\ call[t].pc = "sftp"
    /\ call[t].tool = "take_screenshot"
    /\ LET c == ExitSftp([call[t] EXCEPT !.rres = IF ok THEN "ok" ELSE "raise"])
       IN Resume(t,
            IF ok THEN Ended(ProjectLog(StepOf(c), c.proj, ws, "Screenshot captured"))
            ELSE StepOf(Finish(c, "raised")), ws)

(***************************************************************************)
(* The server                                                              *)
(***************************************************************************)
Init ==
    /\ phase = "start"
    /\ conn = "none"
    /\ opens = 0
    /\ closes = 0
    /\ project = NoProject
    /\ fs = [d \in Paths |-> IF d = Junk THEN [NoDir EXCEPT !.exists = TRUE] ELSE NoDir]
    /\ call = [t \in Tasks |-> Idle]
    /\ ncalls = 0

Lifespan ==
    \/ \E ok \in BOOLEAN : Connect(ok)
    \/ Respond
    \/ \E how \in {"normal", "error"} : Shutdown(how)

\* every tool, run_actions with batches of at most one element
Next ==
    \/ Lifespan
    \/ \E t \in Tasks :
         \/ \E mode \in Modes : MoveMouseStart(t, mode)
         \/ \E button \in Buttons : ClickStart(t, button)
         \/ TypeTextStart(t, SomeText)
         \/ PressKeysStart(t, SomeKeys)
         \/ WaitStart(t)
         \/ SshExecuteStart(t)
         \/ TakeScreenshotStart(t)
         \/ \E ok \in BOOLEAN : TakeScreenshotReturn(t, ok)
    \/ \E t \in Tasks, ws \in WriteFlags :
         \/ \E ok \in BOOLEAN : SingleReturn(t, ok, ws)
         \/ WaitWake(t, ws)
         \/ \E batch \in ShortBatches : RunActionsStart(t, batch, ws)
         \/ \E ok \in BOOLEAN : RunActionsReturn(t, ok, ws)
         \/ RunActionsWake(t, ws)
         \/ \E r \in {"ok", "nonzero", "raise"} : SshExecuteReturn(t, r, ws)
         \/ \E ex \in BOOLEAN : SshUploadStart(t, ex, ws)
         \/ \E dst \in DownloadTargets, mkok \in BOOLEAN : SshDownloadStart(t, dst, mkok, ws)
         \/ \E ok \in BOOLEAN : SshTransferReturn(t, ok, ws)
         \/ \E d \in Dirs : ProjectInit(t, d, ws)
         \/ \E path \in Paths : ProjectLoad(t, path, ws)
         \/ \E level \in {"INFO", "ERROR"} : ProjectLogTool(t, level, "", ws)
         \/ \E fn \in ResultNames, content \in Contents : ProjectSaveResult(t, fn, content, ws)
         \/ \E ok \in BOOLEAN : TakeScreenshotTransfer(t, ok, ws)

Spec == Init /\ [][Next]_vars

FirstTask == CHOOSE t \in Tasks : \A u \in Tasks : t <= u

\* run_actions with batches of every length up to MaxBatch, one batch at a
\* time, a project being made active before, during or after a batch, or never
BatchNext ==
    \/ Lifespan
    \/ \E t \in Tasks, ws \in WriteFlags, d \in Dirs : ProjectInit(t, d, ws)
    \/ \E ws \in WriteFlags :
         \/ \E batch \in Batches : RunActionsStart(FirstTask, batch, ws)
         \/ \E ok \in BOOLEAN : RunActionsReturn(FirstTask, ok, ws)
         \/ RunActionsWake(FirstTask, ws)

BatchSpec == Init /\ [][BatchNext]_vars

(***************************************************************************)
(* Properties of run_actions                                               *)
(***************************************************************************)
\* the handlers of run_actions, in progress or ended
BatchCalls == {t \in Tasks : call[t].tool = "run_actions"}

\* the run_actions handlers that returned their summary
ReturnedBatches == {t \in BatchCalls : call[t].pc = "done" /\ call[t].out = "returned"}

\* the members of a set of element numbers, in increasing order
Ascending(S, n) == LET In(j) == j \in S IN SelectSeq([j \in 1..n |-> j], In)

\* the (1-indexed) numbers of the elements for which commands were issued
CmdIdx(c) == [m \in 1..Len(c.cmds) |-> c.cmds[m].idx]

\* C1: when element k is the first element of the batch to raise, the summary
\* run_actions returns has exactly k entries, numbered 1..k, the k-th an
\* ERROR entry and the ones before it no ERROR entries.
FailStop ==
    \A t \in ReturnedBatches :
        LET c == call[t]
        IN c.fail > 0 =>
             /\ Len(c.results) = c.fail
             /\ \A j \in 1..Len(c.results) : c.results[j].n = j
             /\ c.results[c.fail].tag = "ERROR"
             /\ \A j \in 1..(c.fail - 1) : c.results[j].tag # "ERROR"

\* a batch of two whose first element failed in its remote call has returned
FailStopWitness ==
    \E t \in ReturnedBatches :
        /\ call[t].fail = 1
        /\ call[t].stage = "remote"
        /\ Len(call[t].batch) = 2
        /\ Len(call[t].results) = 1

\* C2: when no element of a batch of N raises, run_actions returns N entries,
\* entry i numbered i and describing the i-th element submitted; it returns
\* them whenever no write to the project log raised.
AllEntries ==
    \A t \in BatchCalls :
        LET c == call[t]
        IN (c.pc = "done" /\ c.out # "cancelled" /\ c.fail = 0) =>
             /\ ~c.wfail => c.out = "returned"
             /\ c.out = "returned" =>
                  /\ Len(c.results) = Len(c.batch)
                  /\ \A j \in 1..Len(c.batch) :
                       /\ c.results[j].n = j
                       /\ c.results[j].action = c.batch[j].action
                       /\ c.results[j].tag # "ERROR"

\* a batch of two different actions, none of which failed, has returned
AllEntriesWitness ==
    \E t \in ReturnedBatches :
        /\ call[t].fail = 0
        /\ Len(call[t].batch) = 2
        /\ call[t].batch[1].action # call[t].batch[2].action
        /\ Len(call[t].results) = 2

\* C3: an element of an unrecognized kind gets an UNKNOWN ACTION entry, which
\* is no ERROR entry; no command is issued for it; it is never the element
\* the batch stopped at: a returned summary that holds its entry holds an
\* entry for every element, or ends at the ERROR entry of a later element.
UnknownIsNotFatal ==
    \A t \in BatchCalls :
        LET c == call[t]
        IN \A j \in 1..Len(c.batch) :
             c.batch[j].action \notin Recognized =>
                /\ c.fail # j
                /\ \A m \in 1..Len(c.cmds) : c.cmds[m].idx # j
                /\ j <= Len(c.results) => c.results[j].tag = "UNKNOWN"
                /\ (t \in ReturnedBatches /\ j <= Len(c.results)) =>
                      \/ Len(c.results) = Len(c.batch)
                      \/ c.fail > j /\ Len(c.results) = c.fail

\* the batch [unknown, type_text] has returned two entries, none an error
UnknownWitness ==
    \E t \in ReturnedBatches :
        /\ Len(call[t].batch) = 2
        /\ call[t].batch[1].action \notin Recognized
        /\ call[t].batch[2].action = "type_text"
        /\ Len(call[t].results) = 2
        /\ call[t].results[1].tag = "UNKNOWN"
        /\ call[t].results[2].tag = "OK"

\* the elements that have their entry and had a command issued: recognized,
\* no pause, and not stopped by an exception before the command existed
Commanded(c) ==
    {j \in 1..Len(c.results) :
        /\ c.batch[j].action \in Recognized \ {"wait"}
        /\ ~(j = c.fail /\ c.stage # "remote")}

\* C4: the commands run_actions has issued are those of the recognized
\* elements that are no pause, up to and including the first element that
\* failed, in the order submitted, each the command of its element; an
\* element's command is in flight only when every element before it has its
\* entry, and no command belongs to an element after the first failure.
IssuedInOrder ==
    \A t \in BatchCalls :
        LET c == call[t]
        IN c.out # "cancelled" =>
             /\ CmdIdx(c) = Ascending(Commanded(c) \cup
                                      (IF c.pc = "run" THEN {c.i + 1} ELSE {}),
                                      Len(c.batch))
             /\ \A m \in 1..Len(c.cmds) :
                  c.cmds[m].cmd = ElementCmd(c.batch[c.cmds[m].idx])
             /\ c.pc = "run" => Len(c.results) = c.i
             /\ c.fail > 0 =>
                  /\ c.pc = "done"
                  /\ \A m \in 1..Len(c.cmds) : c.cmds[m].idx <= c.fail

\* a batch of two commands whose first failed has returned: one command
IssuedInOrderWitness ==
    \E t \in ReturnedBatches :
        /\ call[t].fail = 1
        /\ Len(call[t].batch) = 2
        /\ call[t].batch[2].action = "type_text"
        /\ CmdIdx(call[t]) = <<1>>

(***************************************************************************)
(* Properties of the activity log                                          *)
(***************************************************************************)
\* the tools wrapped by the recorders
RecordedTools ==
    SingleTools \cup {"wait", "run_actions", "ssh_execute", "ssh_upload", "ssh_download"}

\* the operations whose failures are to be recorded
Orchestrated == (RecordedTools \ {"wait"}) \cup {"take_screenshot"}

\* What the operation alone lets its caller see: "returned" (the tool's
\* text), "error" (the "Error ..." text of a handler that catches) or
\* "raised" (the exception of a handler that does not).
PlainOutcome(c) ==
    CASE c.tool \in SingleTools -> IF c.rres = "ok" THEN "returned" ELSE "raised"
      [] c.tool \in {"wait", "run_actions"} -> "returned"
      [] c.tool = "ssh_execute" -> IF c.rres = "raise" THEN "error" ELSE "returned"
      [] c.tool \in {"ssh_upload", "ssh_download"} ->
            IF c.rres = "ok" THEN "returned" ELSE "error"

\* the handlers of recorded tools that have run to their end
EndedRecorded ==
    {t \in Tasks : /\ call[t].tool \in RecordedTools
                   /\ call[t].pc = "done"
                   /\ call[t].out # "cancelled"}

\* the operation of handler record c failed
Failed(c) ==
    \/ c.rres \in {"raise", "nonzero"}
    \/ c.tool = "run_actions" /\ c.fail > 0
    \/ c.tool \in SingleTools /\ c.rres = "none"
    \/ c.tool \in {"ssh_upload", "ssh_download"} /\ c.rres = "none"

IsPrefix(a, b) == Len(a) <= Len(b) /\ SubSeq(b, 1, Len(a)) = a

\* an ERROR line naming the tool is among the lines the step appended
ErrorLineAppended(p, tool) ==
    /\ IsPrefix(fs[p].log, fs'[p].log)
    /\ \E m \in (Len(fs[p].log) + 1)..Len(fs'[p].log) :
          fs'[p].log[m] = LogLine("ERROR", "ERROR in", tool)

\* C5: when a project is active and an orchestrated operation fails, the
\* step in which its handler ends has appended an ERROR line naming the
\* operation to the project's log (no write to the log having raised).
FailureIsLogged ==
    [][\A t \in Tasks :
         ( /\ call[t].pc # "done"
           /\ call'[t].pc = "done"
           /\ call'[t].out # "cancelled"
           /\ call'[t].tool \in Orchestrated
           /\ Failed(call'[t])
           /\ ~call'[t].wfail
           /\ project # NoProject )
         => ErrorLineAppended(project, call'[t].tool)]_vars

OutcomeNotMasked ==
    \A t \in EndedRecorded : call[t].out = PlainOutcome(call[t])

\* C8: the log of every project directory only grows: its content before a
\* step is a prefix of its content after it.
LogAppendOnly ==
    [][\A d \in Paths : IsPrefix(fs[d].log, fs'[d].log)]_vars

(***************************************************************************)
(* Properties of the connection                                            *)
(***************************************************************************)
\* C9: the connection is opened at most once and before any handler uses
\* it; once opened it is closed exactly once when the serving phase ends,
\* normally or by an error; it is not closed when opening failed; no
\* command or transfer is in flight unless it is open.
ConnectionLifetime ==
    /\ opens <= 1
    /\ closes <= opens
    /\ conn = "open" <=> (opens = 1 /\ closes = 0)
    /\ conn = "none" <=> opens = 0
    /\ phase \in {"stopped", "crashed"} => (closes = 1 /\ conn = "closed")
    /\ phase = "serving" => conn = "open"
    /\ phase = "failed" => (opens = 0 /\ closes = 0)
    /\ \A t \in Tasks :
         /\ call[t].pc \in {"run", "sftp", "sleep"} => conn = "open"
         /\ call[t].tool # "none" => opens = 1

\* the serving phase ended by an error while a command was in flight, and
\* the connection has been closed
ConnectionWitness ==
    /\ phase = "crashed"
    /\ closes = 1
    /\ \E t \in Tasks : call[t].out = "cancelled" /\ call[t].cmds # <<>>

\* C10: at most one command or transfer is in flight on the connection.
OneInFlight == Cardinality(InFlight) <= 1

(***************************************************************************)
(* Properties of argument validation                                       *)
(***************************************************************************)
\* the handler record is a move_mouse or a click given a value outside the
\* ones the tool documents
BadEnum(c) ==
    \/ c.tool = "move_mouse" /\ c.arg[1] \notin {"absolute", "relative"}
    \/ c.tool = "click" /\ c.arg[1] \notin {"left", "middle", "right"}

\* C11: a move_mouse whose mode is neither absolute nor relative, and a click
\* whose button is none of left, middle, right, ends in the step it starts
\* in by raising its ValueError: no command was issued and nothing on disk,
\* no log among it, has changed.
EnumRejectedFirst ==
    [][\A t \in Tasks :
         (call'[t] # call[t] /\ BadEnum(call'[t])) =>
            /\ call'[t].pc = "done"
            /\ call'[t].out = "raised"
            /\ call'[t].cmds = <<>>
            /\ fs' = fs]_vars

\* with a project active, a click on an unknown button and a move_mouse with
\* an unknown mode have both been refused
EnumRejectedWitness ==
    /\ project # NoProject
    /\ \E t \in Tasks :
          /\ BadEnum(call[t])
          /\ call[t].out = "raised"
          /\ call[t].cmds = <<>>

\* the batch element is a click or a move_mouse given a value outside the
\* ones the single tools accept
BadEnumElement(e) ==
    \/ e.action = "click" /\ e.param[1] \notin {"left", "middle", "right"}
    \/ e.action = "move_mouse" /\ e.param[1] \notin {"absolute", "relative"}

\* C12: in run_actions a click element with an unknown button, or a
\* move_mouse element with an unknown mode, has no command issued for it;
\* its entry is an ERROR entry and the last entry of the batch.
BatchEnumRejected ==
    \A t \in BatchCalls :
        LET c == call[t]
        IN \A j \in 1..Len(c.batch) :
             BadEnumElement(c.batch[j]) =>
                /\ \A m \in 1..Len(c.cmds) : c.cmds[m].idx # j
                /\ j <= Len(c.results) =>
                      (c.results[j].tag = "ERROR" /\ Len(c.results) = j)

(***************************************************************************)
(* Properties of the tools' outcomes                                       *)
(***************************************************************************)
\* C13: a tool that is none of move_mouse, click, type_text, press_keys and
\* wait, once its handler has run to its end, has given its caller a text
\* (its result or its "Error ..." text): it has not raised.
NeverRaises ==
    \A t \in Tasks :
        ( /\ call[t].pc = "done"
          /\ call[t].out # "cancelled"
          /\ call[t].tool \notin SingleTools \cup {"wait"} )
        => call[t].out \in {"returned", "error"}

(***************************************************************************)
(* Properties of the active project                                        *)
(***************************************************************************)
\* The server at a moment when it serves and project directory d1 has been
\* created by project_init and is the active project; calls are counted
\* from that moment.
SwitchInit ==
    /\ phase = "serving"
    /\ conn = "open"
    /\ opens = 1
    /\ closes = 0
    /\ project = "d1"
    /\ fs = [d \in Paths |->
               IF d = Junk THEN [NoDir EXCEPT !.exists = TRUE]
               ELSE IF d = "d1"
               THEN [NoDir EXCEPT !.exists = TRUE, !.meta = TRUE,
                                  !.log = <<LogLine("INFO", "Project initialized", "")>>]
               ELSE NoDir]
    /\ call = [t \in Tasks |-> Idle]
    /\ ncalls = 0

\* the tools that make a project active, write to a project or to a path of
\* the caller's choice, from the moment of SwitchInit on
SwitchNext ==
    \/ Respond
    \/ \E how \in {"normal", "error"} : Shutdown(how)
    \/ \E t \in Tasks :
         \/ SshExecuteStart(t)
         \/ TakeScreenshotStart(t)
         \/ \E ok \in BOOLEAN : TakeScreenshotReturn(t, ok)
    \/ \E t \in Tasks, ws \in WriteFlags :
         \/ \E r \in {"ok", "nonzero", "raise"} : SshExecuteReturn(t, r, ws)
         \/ \E dst \in DownloadTargets, mkok \in BOOLEAN : SshDownloadStart(t, dst, mkok, ws)
         \/ \E ok \in BOOLEAN : SshTransferReturn(t, ok, ws)
         \/ \E d \in Dirs : ProjectInit(t, d, ws)
         \/ \E path \in Paths : ProjectLoad(t, path, ws)
         \/ \E level \in {"INFO", "ERROR"} : ProjectLogTool(t, level, "", ws)
         \/ \E ok \in BOOLEAN : TakeScreenshotTransfer(t, ok, ws)

SwitchSpec == SwitchInit /\ [][SwitchNext]_vars

\* project_init made directory d the active project at some time: only then
\* does d's log hold the line "Project initialized"
WasActive(d) ==
    \E m \in 1..Len(fs[d].log) : fs[d].log[m] = LogLine("INFO", "Project initialized", "")

\* C14: once a project is active, a step of any tool other than
\* project_init and project_load leaves the log and the files of every
\* project that was active before, and is not now, as they are.
ActiveProjectOnly ==
    [][\A t \in Tasks :
         ( /\ project # NoProject
           /\ call'[t] # call[t]
           /\ call'[t].tool \notin {"none", "project_init", "project_load"} )
         => \A d \in Paths \ {project} : WasActive(d) => fs'[d] = fs[d]]_vars

(***************************************************************************)
(* The project tools                                                       *)
(***************************************************************************)
\* the server with the tools that need a project, before and after
\* project_init
ProjectNext ==
    \/ Lifespan
    \/ \E t \in Tasks :
         \/ ProjectInfo(t)
         \/ ProjectReadAdvice(t)
         \/ ProjectList(t)
         \/ \E lines \in Limits, filter \in Filters : ProjectReadLogs(t, lines, filter)
         \/ TakeScreenshotStart(t)
         \/ \E ok \in BOOLEAN : TakeScreenshotReturn(t, ok)
    \/ \E t \in Tasks, ws \in WriteFlags :
         \/ \E d \in Dirs : ProjectInit(t, d, ws)
         \/ \E level \in Levels, message \in Messages : ProjectLogTool(t, level, message, ws)
         \/ \E fn \in ResultNames, content \in Contents : ProjectSaveResult(t, fn, content, ws)
         \/ \E ts \in Seconds, title \in Titles, content \in Bodies :
               ProjectSaveAdvice(t, ts, title, content, ws)
         \/ \E ok \in BOOLEAN : TakeScreenshotTransfer(t, ok, ws)

ProjectSpec == Init /\ [][ProjectNext]_vars

\* the tools that work on the active project
ProjectScoped ==
    {"project_info", "project_log", "project_read_logs", "project_save_result",
     "project_save_advice", "project_read_advice", "take_screenshot"}

\* C15: with no project active, a project-scoped tool ends in the step it
\* starts in by raising the no-active-project error: no command was issued,
\* nothing on disk has changed and there is still no active project.
NoProjectNoEffect ==
    [][\A t \in Tasks :
         ( /\ project = NoProject
           /\ call[t].pc = "idle"
           /\ call'[t].tool \in ProjectScoped )
         => /\ call'[t].pc = "done"
            /\ call'[t].out = "raised"
            /\ call'[t].cmds = <<>>
            /\ fs' = fs
            /\ project' = NoProject]_vars

\* with no project active and a project directory on disk, take_screenshot
\* has been refused
NoProjectWitness ==
    /\ project = NoProject
    /\ \E d \in Dirs : fs[d].exists
    /\ \E t \in Tasks :
          /\ call[t].tool = "take_screenshot"
          /\ call[t].out = "raised"
          /\ call[t].cmds = <<>>

(***************************************************************************)
(* Properties of the advice notes                                          *)
(***************************************************************************)
\* project_save_advice and project_read_advice on a project that is active
\* and holds no advice
NotesNext ==
    \/ Respond
    \/ \E t \in Tasks : ProjectReadAdvice(t)
    \/ \E t \in Tasks, ws \in WriteFlags, ts \in Seconds, title \in Titles,
          content \in Bodies : ProjectSaveAdvice(t, ts, title, content, ws)

NotesSpec == SwitchInit /\ [][NotesNext]_vars

\* C16: a save_advice that returns has left every earlier note of the
\* project in place with the text it had, and read_advice has one entry
\* more than before.
AdviceNeverOverwritten ==
    [][\A t \in Tasks :
         ( /\ call[t].pc = "idle"
           /\ call'[t].tool = "project_save_advice"
           /\ call'[t].out = "returned" )
         => /\ fs[project].advice \subseteq fs'[project].advice
            /\ Cardinality(GetAllAdvice(fs', project))
                 = Cardinality(GetAllAdvice(fs, project)) + 1]_vars

\* C17: when read_advice returns on a project whose only note was saved
\* with a title and a body, it returns one entry, with that title and that
\* body.
AdviceRoundTrip ==
    \A t \in Tasks :
        ( /\ call[t].tool = "project_read_advice"
          /\ call[t].out = "returned"
          /\ Cardinality(fs[project].advice) = 1 )
        => \A title \in Titles, body \in Bodies :
              (\E a \in fs[project].advice : a.text = AdviceText(title, body))
              => /\ Cardinality(call[t].res) = 1
                 /\ \A e \in call[t].res : e.title = title /\ e.content = body

(***************************************************************************)
(* Reading the log of a project that project_log has written to            *)
(***************************************************************************)
\* the most lines project_log has written before the first step
MaxLog == 2
LoggedLines == {LogLine(level, "MSG", message) : level \in Levels, message \in Messages}

RECURSIVE LogsOf(_)
\* the logs of at most n lines of LoggedLines
LogsOf(n) ==
    IF n = 0 THEN {<<>>}
    ELSE LET shorter == LogsOf(n - 1)
         IN shorter \cup {Append(log, line) : log \in shorter, line \in LoggedLines}

\* project d1 was created and is active, and project_log has been called on
\* it at most MaxLog times
ReadInit ==
    /\ phase = "serving"
    /\ conn = "open"
    /\ opens = 1
    /\ closes = 0
    /\ project = "d1"
    /\ \E logged \in LogsOf(MaxLog) :
          fs = [d \in Paths |->
                  IF d = "d1"
                  THEN [NoDir EXCEPT !.exists = TRUE, !.meta = TRUE,
                                     !.log = <<LogLine("INFO", "Project initialized", "")>>
                                             \o logged]
                  ELSE IF d = Junk THEN [NoDir EXCEPT !.exists = TRUE] ELSE NoDir]
    /\ call = [t \in Tasks |-> Idle]
    /\ ncalls = 0

ReadNext ==
    \/ Respond
    \/ \E t \in Tasks, lines \in Limits, filter \in Filters :
          ProjectReadLogs(t, lines, filter)
    \/ \E t \in Tasks, ws \in WriteFlags, level \in Levels, message \in Messages :
          ProjectLogTool(t, level, message, ws)

ReadSpec == ReadInit /\ [][ReadNext]_vars

\* the last n elements of seq, all of it when it has fewer
Last(seq, n) ==
    IF Len(seq) > n THEN SubSeq(seq, Len(seq) - n + 1, Len(seq)) ELSE seq

\* the calls of project_read_logs that have returned
ReadCalls ==
    {t \in Tasks : call[t].tool = "project_read_logs" /\ call[t].out = "returned"}

\* C18: project_read_logs(lines=L) returns at most L lines, and with no
\* level filter it returns the last min(L, n) of the log's n lines, in the
\* log's order.
CapIsMinimum ==
    \A t \in ReadCalls :
        /\ Len(call[t].res) <= call[t].lines
        /\ call[t].arg = <<"">> => call[t].res = Last(fs[project].log, call[t].lines)

\* the lines of a log whose level is the filter's, compared without case
OfLevel(log, filter) ==
    LET Same(line) == line.kind # "RAW" /\ Upper(line.level) = Upper(filter)
    IN SelectSeq(log, Same)

\* C19: project_read_logs with a level filter and a cap that is not zero
\* returns the last lines, up to the cap, of the entries whose level is the
\* filter's, compared without case: no entry of another level is among them,
\* whatever its message says.
FilterByLevel ==
    \A t \in ReadCalls :
        (call[t].arg # <<"">> /\ call[t].lines > 0)
        => call[t].res = Last(OfLevel(fs[project].log, call[t].arg[1]), call[t].lines)

\* C20: when project_list returns, its listing has one entry for every
\* directory of the projects root: a valid entry for a directory whose
\* metadata file is valid, an "(invalid)" entry for one without metadata.
ListsEveryDirectory ==
    \A t \in Tasks :
        (call[t].tool = "project_list" /\ call[t].out = "returned")
        => call[t].res
             = {[dir |-> d,
                 entry |-> IF fs[d].meta /\ ~fs[d].corrupt THEN "valid" ELSE "(invalid)"] :
                   d \in {x \in Paths : fs[x].exists}}

(***************************************************************************)
(* type_text and the remote shell                                          *)
(***************************************************************************)
\* the text He said "hi"
HeSaidHi == <<"H", "e", " ", "s", "a", "i", "d", " ", "\"", "h", "i", "\"">>
\* a text whose double quote follows a backslash
BackslashQuote == <<"\\", "\"">>
Texts == {SomeText, HeSaidHi, BackslashQuote}

TypeNext ==
    \/ Lifespan
    \/ \E t \in Tasks, text \in Texts : TypeTextStart(t, text)
    \/ \E t \in Tasks, ws \in WriteFlags, ok \in BOOLEAN : SingleReturn(t, ok, ws)
    \/ \E t \in Tasks, ws \in WriteFlags, d \in Dirs : ProjectInit(t, d, ws)

TypeSpec == Init /\ [][TypeNext]_vars

RECURSIVE BackslashesBefore(_, _)
\* the number of backslashes that stand in a row right before position i
BackslashesBefore(text, i) ==
    IF i > 1 /\ text[i - 1] = "\\" THEN 1 + BackslashesBefore(text, i - 1) ELSE 0

\* Inside the double quotes of the command line the remote shell reads, a
\* double quote is escaped when an odd number of backslashes precedes it.
QuotesEscaped(text) ==
    \A i \in 1..Len(text) :
        text[i] = "\"" => BackslashesBefore(text, i) % 2 = 1

\* C21: a type_text handler has issued one remote command, in whose quoted
\* argument every double quote of the text is escaped; when it returns it
\* reports the number of characters of the text, 13 for He said "hi".
TypedAndEscaped ==
    \A t \in Tasks :
        call[t].tool = "type_text"
        => /\ Len(call[t].cmds) = 1
           /\ call[t].cmds[1].cmd.prog = "xdotool type --delay 10"
           /\ QuotesEscaped(call[t].cmds[1].cmd.arg)
           /\ call[t].out = "returned"
                => /\ call[t].res = Len(call[t].arg)
                   /\ call[t].arg = HeSaidHi => call[t].res = 13

(***************************************************************************)
(* ssh_execute on a command that exits with a status other than 0          *)
(***************************************************************************)
\* C22: in the step in which ssh.run hands ssh_execute an exit status that
\* is not 0, the handler ends by returning its text (the output parts with
\* the exit code), and with a project active the step appends to that
\* project's log the tool-call line and then the ERROR line, and nothing else.
NonzeroReported ==
    [][\A t \in Tasks :
         ( /\ call[t].tool = "ssh_execute"
           /\ call[t].pc = "run"
           /\ call'[t].pc = "done"
           /\ call'[t].rres = "nonzero" )
         => /\ call'[t].out = "returned"
            /\ project # NoProject
                 => fs'[project].log
                      = fs[project].log
                          \o <<LogLine("INFO", "TOOL", "ssh_execute"),
                               LogLine("ERROR", "ERROR in", "ssh_execute")>>]_vars

(***************************************************************************)
(* Termination of run_actions                                              *)
(***************************************************************************)
\* Every remote command and every pause of a batch comes to its end: the
\* await of run_vm_cmd returns or raises, the await of asyncio.sleep returns.
BatchFairness ==
    /\ WF_vars(\E ws \in WriteFlags, ok \in BOOLEAN : RunActionsReturn(FirstTask, ok, ws))
    /\ WF_vars(\E ws \in WriteFlags : RunActionsWake(FirstTask, ws))

\* run_actions as the first call from the moment of SwitchInit, when
\* project d1 is active: every recorder call of the batch writes to its log
LiveBatchStart(batch, ws) ==
    /\ ncalls = 0
    /\ RunActionsStart(FirstTask, batch, ws)

LiveBatchNext ==
    \/ Respond
    \/ \E how \in {"normal", "error"} : Shutdown(how)
    \/ \E ws \in WriteFlags :
         \/ \E batch \in Batches : LiveBatchStart(batch, ws)
         \/ \E ok \in BOOLEAN : RunActionsReturn(FirstTask, ok, ws)
         \/ RunActionsWake(FirstTask, ws)

LiveBatchSpec == SwitchInit /\ [][LiveBatchNext]_vars /\ BatchFairness

\* the run_actions handler of task t is suspended in an await
Suspended(t) == call[t].tool = "run_actions" /\ call[t].pc \in {"run", "sleep"}

\* the run_actions handler of task t ended of its own (it was not cancelled
\* with the server)
EndedBatch(t) ==
    call[t].tool = "run_actions" /\ call[t].pc = "done" /\ call[t].out # "cancelled"

\* C23: a run_actions handler that is suspended in an await ends (the
\* batches are run by the first task); each of
\* its steps takes it to a later element or to its end; and when it ends it
\* has processed all N elements, none of which failed, or the elements up
\* to the first one that failed and none after it.
BatchTerminates ==
    /\ Suspended(FirstTask) ~> call[FirstTask].pc = "done"
    /\ [][\A t \in Tasks :
            (Suspended(t) /\ call'[t] # call[t])
            => \/ call'[t].pc = "done"
               \/ Suspended(t)' /\ call'[t].i > call[t].i /\ call'[t].batch = call[t].batch]_vars
    /\ [](\A t \in Tasks :
            EndedBatch(t)
            => /\ Len(call[t].results)
                    = IF call[t].fail > 0 THEN call[t].fail ELSE Len(call[t].batch)
               /\ \A k \in 1..Len(call[t].results) :
                     /\ call[t].results[k].n = k
                     /\ call[t].results[k].tag = "ERROR" <=> k = call[t].fail)

\* a batch of two elements ended after both were processed, the handler
\* having been suspended in a remote command at each of them
BatchTerminatesWitness ==
    \E t \in Tasks :
        /\ EndedBatch(t)
        /\ Len(call[t].batch) = 2
        /\ call[t].fail = 0
        /\ Len(call[t].results) = 2
        /\ Len(call[t].cmds) = 2

(***************************************************************************)
(* The entry count of project_info                                         *)
(***************************************************************************)
InfoMessages == {"", MultilineMessage}

\* project d1 is active; the log is written by project_log and by the
\* recorders of ssh_execute, and by nothing else
InfoNext ==
    \/ Respond
    \/ \E t \in Tasks : ProjectInfo(t)
    \/ \E t \in Tasks : SshExecuteStart(t)
    \/ \E t \in Tasks, ws \in WriteFlags, r \in {"ok", "nonzero", "raise"} :
          SshExecuteReturn(t, r, ws)
    \/ \E t \in Tasks, ws \in WriteFlags, message \in InfoMessages :
          ProjectLogTool(t, "INFO", message, ws)

InfoSpec == SwitchInit /\ [][InfoNext]_vars

\* C24: when project_info returns, the entry count it reports is the number
\* of entries appended to the project's log since the project was created
\* (the log holds one record for each entry appended, beginning with the
\* "Project initialized" entry of project_init).
CountIsEntries ==
    \A t \in Tasks :
        (call[t].tool = "project_info" /\ call[t].out = "returned")
        => call[t].res = <<Len(fs[project].log)>>

(***************************************************************************)
(* The SFTP channel of a transfer                                          *)
(***************************************************************************)
TransferTools == {"ssh_upload", "ssh_download", "take_screenshot"}

\* C25: a channel is open only while its handler awaits the transfer: once
\* a handler of ssh_upload, ssh_download or take_screenshot has ended, by
\* returning, by raising or by being cancelled, after a transfer that
\* succeeded or failed, the channel it opened is released; and an ssh_upload
\* that ended without issuing a transfer (its local file is missing) opened
\* no channel.
ChannelReleased ==
    \A t \in Tasks :
        /\ call[t].chan = "open" => call[t].pc = "sftp"
        /\ (call[t].tool \in TransferTools /\ call[t].pc = "done")
           => call[t].chan = IF \E m \in 1..Len(call[t].cmds) :
                                    call[t].cmds[m].cmd \in {SftpPut, SftpGet}
                             THEN "closed" ELSE "none"
        /\ (call[t].tool = "ssh_upload" /\ call[t].pc = "done" /\ call[t].rres = "none"
              /\ call[t].out # "cancelled")
           => call[t].chan = "none" /\ call[t].cmds = <<>>

\* an ssh_download whose transfer raised has ended, its channel released
ChannelReleasedWitness ==
    \E t \in Tasks :
        /\ call[t].tool = "ssh_download"
        /\ call[t].pc = "done"
        /\ call[t].rres = "raise"
        /\ call[t].chan = "closed"

(***************************************************************************)
(* project_load that returns an error                                      *)
(***************************************************************************)
\* C26: the step in which a project_load handler ends by returning its
\* "Error ..." text leaves the active project as it was.
FailedLoadKeepsProject ==
    [][\A t \in Tasks :
         ( /\ call[t].pc = "idle"
           /\ call'[t].tool = "project_load"
           /\ call'[t].pc = "done"
           /\ call'[t].out = "error" )
         => project' = project]_vars

(***************************************************************************)
(* The batch path and the single-action path                               *)
(***************************************************************************)
\* the elements handed to run_actions one at a time: every action that has
\* a single-action tool, with each parameter value the model hands to that
\* tool
PairElems ==
    {Element("press_keys", SomeKeys, TRUE), Element("type_text", SomeText, TRUE)}
    \cup {Element("click", <<button>>, TRUE) : button \in Buttons}
    \cup {Element("move_mouse", <<mode>>, TRUE) : mode \in Modes}

PairNext ==
    \/ Lifespan
    \/ \E t \in Tasks :
         \/ \E mode \in Modes : MoveMouseStart(t, mode)
         \/ \E button \in Buttons : ClickStart(t, button)
         \/ TypeTextStart(t, SomeText)
         \/ PressKeysStart(t, SomeKeys)
    \/ \E t \in Tasks, ws \in WriteFlags :
         \/ \E ok \in BOOLEAN : SingleReturn(t, ok, ws)
         \/ \E e \in PairElems : RunActionsStart(t, <<e>>, ws)
         \/ \E ok \in BOOLEAN : RunActionsReturn(t, ok, ws)

PairSpec == Init /\ [][PairNext]_vars

\* the parameters of element e are valid for the single-action tool
ValidParams(e) ==
    /\ e.wf
    /\ e.action = "click" => e.param[1] \in ButtonNames
    /\ e.action = "move_mouse" => e.param[1] \in ModeNames

\* the remote commands handler record c has issued, in order
IssuedCmds(c) == [m \in 1..Len(c.cmds) |-> c.cmds[m].cmd]

\* handler t runs a single-action tool and handler u runs run_actions on the
\* one element that names the same action with the same parameters
SameAction(t, u) ==
    /\ call[t].tool \in SingleTools
    /\ call[u].tool = "run_actions"
    /\ Len(call[u].batch) = 1
    /\ call[u].batch[1].action = call[t].tool
    /\ call[u].batch[1].param = call[t].arg

\* C27: a single-action tool and run_actions, given the same action with
\* the same valid parameters, have issued the same remote commands: the
\* same one command, or both none.
PathsEquivalent ==
    \A t, u \in Tasks :
        (SameAction(t, u) /\ ValidParams(call[u].batch[1]))
        => /\ IssuedCmds(call[t]) = IssuedCmds(call[u])
           /\ Len(call[t].cmds) = 1

\* click with the right button on both paths, both commands in flight
PathsEquivalentWitness ==
    \E t, u \in Tasks :
        /\ SameAction(t, u)
        /\ call[t].tool = "click"
        /\ call[t].arg = <<"right">>
        /\ call[t].pc = "run"
        /\ call[u].pc = "run"
        /\ IssuedCmds(call[u]) = <<ClickCmd("3")>>

====
